---- MODULE Spec2Model ----
(***************************************************************************)
(* Brzozowski-derivative regular expressions: the term algebra, the pure   *)
(* and the approximately-similar-canonical builders, nullability, the      *)
(* derivative, derivative matching, and the automaton built from           *)
(* derivatives together with its matcher.                                  *)
(*                                                                         *)
(* A term is a tuple whose first element is the variant name:              *)
(*   <<"EmptySet">>, <<"EmptyString">>, <<"Symbol", v>>,                   *)
(*   <<"Concat", l, r>>, <<"Closure", i>>, <<"Or", l, r>>,                 *)
(*   <<"And", l, r>>, <<"Complement", i>>.                                 *)
(***************************************************************************)
EXTENDS Integers, Sequences, FiniteSets, TLC

\* An operator that stands for a function of the code takes its arguments by
\* value, as the code does: where an argument is itself the result of a call
\* it is evaluated once and bound, written
\*     CHOOSE y \in {F(a) : a \in {argument}} : TRUE
\* which is F(argument).

\* ------------------------------------------------------------------ bounds
\* Largest number of nodes of a term drawn as input of the matching pipeline.
MaxSize == 4
\* Largest number of nodes of a pure term whose canonical form to_automaton
\* is called on.
MaxRegex == 5
\* Largest number of nodes of a term handed to Display.
MaxDisplay == 6
\* Longest word fed to is_match and to the matcher.
MaxWord == 3
\* Largest total number of nodes of the three terms a builder client holds.
MaxNodes == 7
\* Largest number of states the model lets the while loop of to_automaton
\* push; the loop of the code has no such limit.
MaxStates == 12

\* Symbols a regular expression may mention, and the symbols a word may
\* hold: Other never occurs in a regular expression.
RegexSymbols == {1, 2}
WordSymbols == {1, 2, 3}
Other == CHOOSE v \in WordSymbols : v \notin RegexSymbols

\* ------------------------------------------------------------- term model
EmptySet == <<"EmptySet">>
EmptyString == <<"EmptyString">>
Symbol(v) == <<"Symbol", v>>
Concat(l, r) == <<"Concat", l, r>>
Closure(i) == <<"Closure", i>>
Or(l, r) == <<"Or", l, r>>
And(l, r) == <<"And", l, r>>
Complement(i) == <<"Complement", i>>

Kind(r) == r[1]
IsBinary(r) == Kind(r) \in {"Concat", "Or", "And"}
IsUnary(r) == Kind(r) \in {"Closure", "Complement"}

\* Number of nodes of a term.
RECURSIVE TermSize(_)
TermSize(r) ==
    IF IsBinary(r) THEN 1 + TermSize(r[2]) + TermSize(r[3])
    ELSE IF IsUnary(r) THEN 1 + TermSize(r[2])
    ELSE 1

\* Iterator::reduce with the closure |l, r| Regex::k(l, r): a left fold of
\* a non-empty sequence into nodes of variant k.
RECURSIVE ReduceFrom(_, _, _, _)
ReduceFrom(k, acc, s, i) ==
    IF i > Len(s) THEN acc
    ELSE CHOOSE y \in {ReduceFrom(k, a, s, i + 1) : a \in {<<k, acc, s[i]>>}}
            : TRUE

Reduce(k, s) ==
    CHOOSE y \in {ReduceFrom(k, v[1], v, 2) : v \in {s}} : TRUE

Rev(s) == [i \in 1..Len(s) |-> s[Len(s) + 1 - i]]

\* ------------------------------------------------- canonicalizing builder
\* A rank() that puts Complement first instead of last.
rank_complement_first(re) ==
    CASE Kind(re) = "EmptySet" -> 1
      [] Kind(re) = "EmptyString" -> 2
      [] Kind(re) = "Symbol" -> 3
      [] Kind(re) = "Concat" -> 4
      [] Kind(re) = "Closure" -> 5
      [] Kind(re) = "Or" -> 6
      [] Kind(re) = "And" -> 7
      [] Kind(re) = "Complement" -> 0

rank(re) ==
    CASE Kind(re) = "EmptySet" -> 1
      [] Kind(re) = "EmptyString" -> 2
      [] Kind(re) = "Symbol" -> 3
      [] Kind(re) = "Concat" -> 4
      [] Kind(re) = "Closure" -> 5
      [] Kind(re) = "Or" -> 6
      [] Kind(re) = "And" -> 7
      [] Kind(re) = "Complement" -> 8

\* Ordering of two integers: -1 Less, 0 Equal, 1 Greater.
IntCmp(a, b) == IF a < b THEN -1 ELSE IF a > b THEN 1 ELSE 0

\* Ordering::then
Then(o1, o2) == IF o1 # 0 THEN o1 ELSE o2

RECURSIVE cmp(_, _)
cmp(left, right) ==
    IF Kind(left) = Kind(right) /\ Kind(left) = "Symbol"
        THEN IntCmp(left[2], right[2])
    ELSE IF Kind(left) = Kind(right) /\ IsBinary(left)
        THEN Then(cmp(left[2], right[2]), cmp(left[3], right[3]))
    ELSE IF Kind(left) = Kind(right) /\ IsUnary(left)
        THEN cmp(left[2], right[2])
    ELSE IntCmp(rank(left), rank(right))

\* Insert x into the sorted sequence s after every element not greater than
\* it (the sort is stable).
RECURSIVE InsertSorted(_, _)
InsertSorted(s, x) ==
    IF s = <<>> THEN <<x>>
    ELSE IF cmp(s[Len(s)], x) <= 0 THEN Append(s, x)
    ELSE CHOOSE y \in {Append(InsertSorted(front, x), s[Len(s)])
                       : front \in {SubSeq(s, 1, Len(s) - 1)}} : TRUE

RECURSIVE SortFrom(_, _, _)
SortFrom(acc, s, i) ==
    IF i > Len(s) THEN acc
    ELSE CHOOSE y \in {SortFrom(a, s, i + 1) : a \in {InsertSorted(acc, s[i])}}
            : TRUE

\* A sort that leaves the operands in the order they were chained.
sorted_by_cmp_unsorted(s) == s

sorted_by_cmp(s) == CHOOSE y \in {SortFrom(<<>>, v, 1) : v \in {s}} : TRUE

\* Itertools::dedup: drop an element equal to the one before it.
RECURSIVE DedupFrom(_, _, _)
DedupFrom(acc, s, i) ==
    IF i > Len(s) THEN acc
    ELSE IF acc # <<>> /\ acc[Len(acc)] = s[i] THEN DedupFrom(acc, s, i + 1)
    ELSE CHOOSE y \in {DedupFrom(a, s, i + 1) : a \in {Append(acc, s[i])}}
            : TRUE

\* A dedup that keeps every operand.
dedup_none(s) == s

dedup(s) == CHOOSE y \in {DedupFrom(<<>>, v, 1) : v \in {s}} : TRUE

\* ReverseIter over nested nodes of variant k: the right child first, then
\* the walk continues into the left child.
RECURSIVE ReverseIter(_, _)
ReverseIter(k, r) ==
    IF Kind(r) = k THEN <<r[3]>> \o ReverseIter(k, r[2]) ELSE <<r>>

into_reverse_concat_iter(r) == ReverseIter("Concat", r)
into_reverse_or_iter(r) == ReverseIter("Or", r)
into_reverse_and_iter(r) == ReverseIter("And", r)

is_empty_set_complement(r) == Kind(r) = "Complement" /\ r[2] = EmptySet

\* A closure() without the rule for a closure of a closure.
asc_closure_nested(inner) ==
    IF inner = EmptySet THEN EmptyString
    ELSE IF inner = EmptyString THEN EmptyString
    ELSE Closure(inner)

asc_closure(inner) ==
    IF inner = EmptySet THEN EmptyString
    ELSE IF inner = EmptyString THEN EmptyString
    ELSE IF Kind(inner) = "Closure" THEN inner
    ELSE Closure(inner)

\* Right fold of a non-empty sequence.
RECURSIVE ReduceRightFrom(_, _, _)
ReduceRightFrom(k, s, i) ==
    IF i = Len(s) THEN s[i] ELSE <<k, s[i], ReduceRightFrom(k, s, i + 1)>>

\* A concat() that refolds the operands to the right.
asc_concat_right_fold(left, right) ==
    IF left = EmptySet \/ right = EmptySet THEN EmptySet
    ELSE IF left = EmptyString THEN right
    ELSE IF right = EmptyString THEN left
    ELSE ReduceRightFrom("Concat",
                         Rev(into_reverse_concat_iter(right)
                             \o into_reverse_concat_iter(left)), 1)

\* A concat() that chains the operands of left behind those of right.
asc_concat_swapped(left, right) ==
    IF left = EmptySet \/ right = EmptySet THEN EmptySet
    ELSE IF left = EmptyString THEN right
    ELSE IF right = EmptyString THEN left
    ELSE Reduce("Concat",
                Rev(into_reverse_concat_iter(left)
                    \o into_reverse_concat_iter(right)))

asc_concat(left, right) ==
    IF left = EmptySet \/ right = EmptySet THEN EmptySet
    ELSE IF left = EmptyString THEN right
    ELSE IF right = EmptyString THEN left
    ELSE Reduce("Concat",
                Rev(into_reverse_concat_iter(right)
                    \o into_reverse_concat_iter(left)))

\* A complement() that always wraps.
asc_complement_wrap(inner) == Complement(inner)

asc_complement(inner) ==
    IF Kind(inner) = "Complement" THEN inner[2] ELSE Complement(inner)

\* An or() whose first rule is and()'s: the empty set absorbs.
asc_or_absorbing(left, right) ==
    IF left = EmptySet \/ right = EmptySet THEN EmptySet
    ELSE IF is_empty_set_complement(left) \/ is_empty_set_complement(right)
        THEN asc_complement(EmptySet)
    ELSE Reduce("Or",
                dedup(sorted_by_cmp(into_reverse_or_iter(right)
                                    \o into_reverse_or_iter(left))))

asc_or(left, right) ==
    IF left = EmptySet THEN right
    ELSE IF right = EmptySet THEN left
    ELSE IF is_empty_set_complement(left) \/ is_empty_set_complement(right)
        THEN asc_complement(EmptySet)
    ELSE Reduce("Or",
                dedup(sorted_by_cmp(into_reverse_or_iter(right)
                                    \o into_reverse_or_iter(left))))

\* An and() that looks for the complement of the empty set on the left only.
asc_and_left_only(left, right) ==
    IF left = EmptySet \/ right = EmptySet THEN EmptySet
    ELSE IF is_empty_set_complement(left) THEN right
    ELSE Reduce("And",
                dedup(sorted_by_cmp(into_reverse_and_iter(right)
                                    \o into_reverse_and_iter(left))))

asc_and(left, right) ==
    IF left = EmptySet \/ right = EmptySet THEN EmptySet
    ELSE IF is_empty_set_complement(left) THEN right
    ELSE IF is_empty_set_complement(right) THEN left
    ELSE Reduce("And",
                dedup(sorted_by_cmp(into_reverse_and_iter(right)
                                    \o into_reverse_and_iter(left))))

\* ------------------------------------------------------ builder dispatch
\* b is the builder tag: "Pure" keeps the constructor calls, "ASC" rewrites.
Builders == {"Pure", "ASC"}

\* A builder method takes its arguments by value: each argument is evaluated
\* once, bound, and the bound value handed on.
B_closure(b, inner) ==
    CHOOSE y \in {IF b = "Pure" THEN Closure(i) ELSE asc_closure(i)
                  : i \in {inner}} : TRUE

B_concat(b, l, r) ==
    CHOOSE y \in {IF b = "Pure" THEN Concat(a[1], a[2])
                  ELSE asc_concat(a[1], a[2])
                  : a \in {<<l, r>>}} : TRUE

B_or(b, l, r) ==
    CHOOSE y \in {IF b = "Pure" THEN Or(a[1], a[2]) ELSE asc_or(a[1], a[2])
                  : a \in {<<l, r>>}} : TRUE

B_and(b, l, r) ==
    CHOOSE y \in {IF b = "Pure" THEN And(a[1], a[2]) ELSE asc_and(a[1], a[2])
                  : a \in {<<l, r>>}} : TRUE

B_complement(b, inner) ==
    CHOOSE y \in {IF b = "Pure" THEN Complement(i) ELSE asc_complement(i)
                  : i \in {inner}} : TRUE

\* A rebuild() that hands the children of a Concat to the builder in the
\* wrong order.
RECURSIVE rebuild_concat_swapped(_, _)
rebuild_concat_swapped(x, r) ==
    CASE Kind(r) = "Concat" ->
            B_concat(x, rebuild_concat_swapped(x, r[3]),
                     rebuild_concat_swapped(x, r[2]))
      [] Kind(r) = "Closure" -> B_closure(x, rebuild_concat_swapped(x, r[2]))
      [] Kind(r) = "Or" ->
            B_or(x, rebuild_concat_swapped(x, r[2]),
                 rebuild_concat_swapped(x, r[3]))
      [] Kind(r) = "And" ->
            B_and(x, rebuild_concat_swapped(x, r[2]),
                  rebuild_concat_swapped(x, r[3]))
      [] Kind(r) = "Complement" ->
            B_complement(x, rebuild_concat_swapped(x, r[2]))
      [] OTHER -> r

RECURSIVE rebuild(_, _)
rebuild(x, r) ==
    CASE Kind(r) = "Concat" -> B_concat(x, rebuild(x, r[2]), rebuild(x, r[3]))
      [] Kind(r) = "Closure" -> B_closure(x, rebuild(x, r[2]))
      [] Kind(r) = "Or" -> B_or(x, rebuild(x, r[2]), rebuild(x, r[3]))
      [] Kind(r) = "And" -> B_and(x, rebuild(x, r[2]), rebuild(x, r[3]))
      [] Kind(r) = "Complement" -> B_complement(x, rebuild(x, r[2]))
      [] OTHER -> r

\* impl Clone for Regex<B>: a clone is a rebuild through the term's builder.
clone(x, r) == rebuild(x, r)

\* ------------------------------------------------------------ nullability
\* An is_nullable() that takes a closure to be nullable only when its inner
\* term is.
RECURSIVE is_nullable_closure_inner(_)
is_nullable_closure_inner(r) ==
    CASE Kind(r) = "EmptySet" -> FALSE
      [] Kind(r) = "EmptyString" -> TRUE
      [] Kind(r) = "Symbol" -> FALSE
      [] Kind(r) = "Concat" ->
            is_nullable_closure_inner(r[2]) /\ is_nullable_closure_inner(r[3])
      [] Kind(r) = "Closure" -> is_nullable_closure_inner(r[2])
      [] Kind(r) = "Or" ->
            is_nullable_closure_inner(r[2]) \/ is_nullable_closure_inner(r[3])
      [] Kind(r) = "And" ->
            is_nullable_closure_inner(r[2]) /\ is_nullable_closure_inner(r[3])
      [] Kind(r) = "Complement" -> ~is_nullable_closure_inner(r[2])

RECURSIVE is_nullable(_)
is_nullable(r) ==
    CASE Kind(r) = "EmptySet" -> FALSE
      [] Kind(r) = "EmptyString" -> TRUE
      [] Kind(r) = "Symbol" -> FALSE
      [] Kind(r) = "Concat" -> is_nullable(r[2]) /\ is_nullable(r[3])
      [] Kind(r) = "Closure" -> TRUE
      [] Kind(r) = "Or" -> is_nullable(r[2]) \/ is_nullable(r[3])
      [] Kind(r) = "And" -> is_nullable(r[2]) /\ is_nullable(r[3])
      [] Kind(r) = "Complement" -> ~is_nullable(r[2])

\* A nullable() that forgets to look at the term.
nullable_always(r) == EmptyString

nullable(r) == IF is_nullable(r) THEN EmptyString ELSE EmptySet

\* ------------------------------------------------------------- derivation
\* A symbol class: <<"Include", S>> or <<"Exclude", S>>.
Include(S) == <<"Include", S>>
Exclude(S) == <<"Exclude", S>>

matches(class, symbol) ==
    IF class[1] = "Include" THEN symbol \in class[2] ELSE symbol \notin class[2]

\* clone() is rebuild() through the term's own builder.
RECURSIVE derive_symbols(_, _, _)
derive_symbols(b, r, class) ==
    CASE Kind(r) = "EmptySet" -> EmptySet
      [] Kind(r) = "EmptyString" -> EmptySet
      [] Kind(r) = "Symbol" ->
            IF matches(class, r[2]) THEN EmptyString ELSE EmptySet
      [] Kind(r) = "Concat" ->
            B_or(b,
                 B_concat(b, derive_symbols(b, r[2], class), rebuild(b, r[3])),
                 B_concat(b, nullable(r[2]), derive_symbols(b, r[3], class)))
      [] Kind(r) = "Closure" ->
            B_concat(b, derive_symbols(b, r[2], class),
                     B_closure(b, rebuild(b, r[2])))
      [] Kind(r) = "Or" ->
            B_or(b, derive_symbols(b, r[2], class), derive_symbols(b, r[3], class))
      [] Kind(r) = "And" ->
            B_and(b, derive_symbols(b, r[2], class), derive_symbols(b, r[3], class))
      [] Kind(r) = "Complement" ->
            B_complement(b, derive_symbols(b, r[2], class))

derive(b, r, symbol) == derive_symbols(b, r, Include({symbol}))

RECURSIVE DeriveFrom(_, _, _, _)
DeriveFrom(b, d, w, i) ==
    IF i > Len(w) THEN d ELSE DeriveFrom(b, derive(b, d, w[i]), w, i + 1)

derive_iter(b, r, w) == DeriveFrom(b, rebuild(b, r), w, 1)

is_match(b, r, w) == is_nullable(derive_iter(b, r, w))

\* ------------------------------------------------------------ input terms
Atoms == {EmptySet, EmptyString} \cup {Symbol(v) : v \in RegexSymbols}

\* The terms with exactly k nodes, as the pure builder builds them.
RECURSIVE TermsOfSize(_)
TermsOfSize(k) ==
    IF k = 1 THEN Atoms
    ELSE LET inner == TermsOfSize(k - 1)
         IN  {Closure(i) : i \in inner} \cup {Complement(i) : i \in inner}
             \cup UNION {
                 LET ls == TermsOfSize(j)
                     rs == TermsOfSize(k - 1 - j)
                 IN  UNION {{Concat(l, r), Or(l, r), And(l, r)} : l \in ls, r \in rs}
                 : j \in 1..(k - 2)}

PureTerms(n) == UNION {TermsOfSize(k) : k \in 1..n}

Words(n) == UNION {[1..k -> WordSymbols] : k \in 0..n}

CanonicalTerms(n) == {rebuild("ASC", p) : p \in PureTerms(n)}

\* ------------------------------------------------------------------ state
VARIABLES
    pure,       \* a term built with the pure builder
    regex,      \* the term built with the canonicalizing builder
    word,       \* the symbols consumed so far
    d_pure,     \* derive_iter's loop variable d over the pure term
    d_canon,    \* derive_iter's loop variable d over the canonical term
    pc,         \* position of the automaton pipeline
    symbols,    \* to_automaton: the collected symbols
    iter,       \* to_automaton: the order in which the HashSet is iterated
    regexes,    \* to_automaton: term -> state index
    queue,      \* to_automaton: the work queue
    states,     \* the states pushed so far (FiniteAutomaton::states)
    state,      \* Matcher::state
    ret,        \* the value returned by the last Matcher::next / next_iter
    ra, rb, rc, \* three terms held by a client of the canonicalizing builder
    out         \* the pieces Display has written to the formatter, in order

matchVars == <<pure, d_pure, d_canon>>
autoVars == <<pc, symbols, iter, regexes, queue, states, state, ret>>
builderVars == <<ra, rb, rc>>
vars == <<regex, word, matchVars, autoVars, builderVars, out>>

MatchIdle == pure = EmptySet /\ d_pure = EmptySet /\ d_canon = EmptySet
AutoIdle ==
    /\ pc = "idle" /\ symbols = {} /\ iter = <<>> /\ regexes = <<>>
    /\ queue = <<>> /\ states = <<>> /\ state = 0 /\ ret = FALSE
BuilderIdle == ra = EmptySet /\ rb = EmptySet /\ rc = EmptySet
DisplayIdle == out = <<>>

\* ------------------------------------------------- derivative matching
\* derive_iter(symbols) and is_match(symbols) on a pure term and on its
\* rebuild through the canonicalizing builder, one loop iteration at a time.
InitMatch ==
    /\ pure \in PureTerms(MaxSize)
    /\ regex = rebuild("ASC", pure)
    /\ word = <<>>
    /\ d_pure = rebuild("Pure", pure)
    /\ d_canon = rebuild("ASC", regex)
    /\ AutoIdle /\ BuilderIdle /\ DisplayIdle

DeriveStep(s) ==
    /\ Len(word) < MaxWord
    /\ d_pure' = derive("Pure", d_pure, s)
    /\ d_canon' = derive("ASC", d_canon, s)
    /\ word' = Append(word, s)
    /\ UNCHANGED <<pure, regex, autoVars, builderVars, out>>

NextMatch == \E s \in WordSymbols : DeriveStep(s)

SpecMatch == InitMatch /\ [][NextMatch]_vars

\* The standard set semantics: w is in the language of r.
RECURSIVE InLang(_, _)
InLang(r, w) ==
    CASE Kind(r) = "EmptySet" -> FALSE
      [] Kind(r) = "EmptyString" -> w = <<>>
      [] Kind(r) = "Symbol" -> Len(w) = 1 /\ w[1] = r[2]
      [] Kind(r) = "Concat" ->
            \E i \in 0..Len(w) :
                /\ InLang(r[2], SubSeq(w, 1, i))
                /\ InLang(r[3], SubSeq(w, i + 1, Len(w)))
      [] Kind(r) = "Closure" ->
            \/ w = <<>>
            \/ \E i \in 1..Len(w) :
                /\ InLang(r[2], SubSeq(w, 1, i))
                /\ InLang(r, SubSeq(w, i + 1, Len(w)))
      [] Kind(r) = "Or" -> InLang(r[2], w) \/ InLang(r[3], w)
      [] Kind(r) = "And" -> InLang(r[2], w) /\ InLang(r[3], w)
      [] Kind(r) = "Complement" -> ~InLang(r[2], w)

\* C2: is_match decides membership in the language of the term, for pure and
\* for canonical terms, and the derivative by the consumed word denotes the
\* words that continue it into the language.
C2_IsMatchIsMembership ==
    /\ is_nullable(d_pure) = InLang(pure, word)
    /\ is_nullable(d_canon) = InLang(regex, word)
    /\ \A v \in Words(1) :
        /\ InLang(d_pure, v) = InLang(pure, word \o v)
        /\ InLang(d_canon, v) = InLang(regex, word \o v)

C2_Witness ==
    /\ Len(word) = 2
    /\ Kind(pure) = "Concat" /\ Kind(pure[2]) = "Closure"
    /\ is_nullable(d_pure) /\ is_nullable(d_canon)
    /\ ~is_nullable(pure)

\* C3: a pure term and its canonical rebuild agree on nullability and on
\* is_match for every word.
C3_CanonicalizationPreservesMatching ==
    /\ is_nullable(pure) = is_nullable(regex)
    /\ is_nullable(d_pure) = is_nullable(d_canon)

C3_Witness ==
    /\ pure # regex
    /\ Kind(pure) = "Or" /\ Kind(regex) = "Closure"
    /\ Len(word) = 2 /\ is_nullable(d_pure) /\ is_nullable(d_canon)

\* ------------------------------------------------------------- automaton
RECURSIVE collect_symbols(_)
collect_symbols(r) ==
    CASE Kind(r) = "Symbol" -> {r[2]}
      [] IsBinary(r) -> collect_symbols(r[2]) \cup collect_symbols(r[3])
      [] IsUnary(r) -> collect_symbols(r[2])
      [] OTHER -> {}

\* The orders in which a set can be iterated.
Orders(S) ==
    {f \in [1..Cardinality(S) -> S] : \A i, j \in DOMAIN f : i # j => f[i] # f[j]}

\* A get_or_insert() that never finds a regex it has interned.
get_or_insert_always_new(r, q, m) ==
    CHOOSE g \in
        {[idx |-> Cardinality(DOMAIN a[3]),
          queue |-> Append(a[2], a[1]),
          regexes |-> (rebuild("ASC", a[1]) :> Cardinality(DOMAIN a[3]))
                        @@ a[3]]
         : a \in {<<r, q, m>>}} : TRUE

\* A get_or_insert() that takes the index of a new regex after inserting it.
get_or_insert_index_after_insert(r, q, m) ==
    CHOOSE g \in
        {IF a[1] \in DOMAIN a[3]
            THEN [idx |-> a[3][a[1]], queue |-> a[2], regexes |-> a[3]]
            ELSE [idx |-> Cardinality(DOMAIN a[3]) + 1,
                  queue |-> Append(a[2], a[1]),
                  regexes |-> (rebuild("ASC", a[1])
                                :> Cardinality(DOMAIN a[3]) + 1) @@ a[3]]
         : a \in {<<r, q, m>>}} : TRUE

\* get_or_insert: the index of r, interning and queueing r when it is new.
\* The arguments <<r, q, m>> are taken by value, as a.
get_or_insert(r, q, m) ==
    CHOOSE g \in
        {IF a[1] \in DOMAIN a[3]
            THEN [idx |-> a[3][a[1]], queue |-> a[2], regexes |-> a[3]]
            ELSE [idx |-> Cardinality(DOMAIN a[3]),
                  queue |-> Append(a[2], a[1]),
                  regexes |-> (rebuild("ASC", a[1]) :> Cardinality(DOMAIN a[3]))
                                @@ a[3]]
         : a \in {<<r, q, m>>}} : TRUE

\* A for loop that files each transition under the position of the symbol
\* in the iteration instead of under the symbol.
RECURSIVE ForSymbols_by_position(_, _, _, _)
ForSymbols_by_position(r, it, i, acc) ==
    IF i > Len(it) THEN acc
    ELSE CHOOSE f \in
        {ForSymbols_by_position(r, it, i + 1,
                    [queue |-> g.queue,
                     regexes |-> g.regexes,
                     transitions |-> (i :> g.idx) @@ g.transitions])
         : g \in {[transitions |-> acc.transitions] @@
                  get_or_insert(derive_symbols("ASC", r, Include({it[i]})),
                                acc.queue, acc.regexes)}} : TRUE

\* The for loop over the symbols of to_automaton's while body, from the
\* i-th symbol of the iteration on; g is what get_or_insert returned for the
\* derivative by that symbol, next to the transitions filed so far.
RECURSIVE ForSymbols(_, _, _, _)
ForSymbols(r, it, i, acc) ==
    IF i > Len(it) THEN acc
    ELSE CHOOSE f \in
        {ForSymbols(r, it, i + 1,
                    [queue |-> g.queue,
                     regexes |-> g.regexes,
                     transitions |-> (it[i] :> g.idx) @@ g.transitions])
         : g \in {[transitions |-> acc.transitions] @@
                  get_or_insert(derive_symbols("ASC", r, Include({it[i]})),
                                acc.queue, acc.regexes)}} : TRUE

\* A while body that derives nothing for the default class and lets the
\* default transition lead back to the state itself.
WhileBody_default_to_self(q, m, it, syms) ==
    CHOOSE b \in
        {[queue |-> f.queue,
          regexes |-> f.regexes,
          state |-> [regex |-> Head(q),
                     accepting |-> is_nullable(Head(q)),
                     transitions |-> f.transitions,
                     default_transition |-> m[Head(q)]]]
         : f \in {ForSymbols(Head(q), it, 1,
                             [queue |-> Tail(q), regexes |-> m,
                              transitions |-> <<>>])}} : TRUE

\* A default class that holds the symbols of the regex instead of all others.
default_symbols_include(syms) == Include(syms)

\* let default_symbols = Symbols::Exclude(symbols.clone())
default_symbols(syms) == Exclude(syms)

\* The body of the while loop for the queue q, the interned regexes m, the
\* iteration order it of the symbols syms: the queue and the interned
\* regexes after it, and the state it pushes. f is the outcome of the for
\* loop, d what get_or_insert returned for the default derivative, next to
\* the transitions of f.
WhileBody(q, m, it, syms) ==
    CHOOSE b \in
        {[queue |-> d.queue,
          regexes |-> d.regexes,
          state |-> [regex |-> Head(q),
                     accepting |-> is_nullable(Head(q)),
                     transitions |-> d.transitions,
                     default_transition |-> d.idx]]
         : d \in {[transitions |-> f.transitions] @@
                  get_or_insert(derive_symbols("ASC", Head(q),
                                               default_symbols(syms)),
                                f.queue, f.regexes)
                  : f \in {ForSymbols(Head(q), it, 1,
                                      [queue |-> Tail(q), regexes |-> m,
                                       transitions |-> <<>>])}}} : TRUE

\* The while loop run to its end: the states of the automaton.
RECURSIVE WhileLoop(_, _, _, _, _)
WhileLoop(q, m, sts, it, syms) ==
    IF q = <<>> THEN sts
    ELSE LET b == WhileBody(q, m, it, syms)
         IN  WhileLoop(b.queue, b.regexes, Append(sts, b.state), it, syms)

\* to_automaton when the symbol set is iterated in the order it.
to_automaton(r, it) ==
    LET g == get_or_insert(rebuild("ASC", r), <<>>, <<>>)
    IN  WhileLoop(g.queue, g.regexes, <<>>, it, collect_symbols(r))

\* FiniteAutomaton::next and is_accepting; state indices count from 0.
\* A next() that stays in the current state on a symbol without transition.
next_stay(sts, current, symbol) ==
    IF symbol \in DOMAIN sts[current + 1].transitions
        THEN sts[current + 1].transitions[symbol]
        ELSE current

next(sts, current, symbol) ==
    IF symbol \in DOMAIN sts[current + 1].transitions
        THEN sts[current + 1].transitions[symbol]
        ELSE sts[current + 1].default_transition

is_accepting(sts, current) == sts[current + 1].accepting

\* Matcher::regex
Matcher_regex(sts, current) == sts[current + 1].regex

RECURSIVE RunFrom(_, _, _, _)
RunFrom(sts, current, w, i) ==
    IF i > Len(w) THEN current
    ELSE RunFrom(sts, next(sts, current, w[i]), w, i + 1)

Init ==
    /\ regex \in CanonicalTerms(MaxRegex)
    /\ word = <<>>
    /\ pc = "to_automaton"
    /\ symbols = {} /\ iter = <<>> /\ regexes = <<>>
    /\ queue = <<>> /\ states = <<>> /\ state = 0 /\ ret = FALSE
    /\ MatchIdle /\ BuilderIdle /\ DisplayIdle

\* to_automaton up to the while loop.
ToAutomaton ==
    /\ pc = "to_automaton"
    /\ symbols' = collect_symbols(regex)
    /\ \E o \in Orders(collect_symbols(regex)) : iter' = o
    /\ LET g == get_or_insert(rebuild("ASC", regex), <<>>, <<>>)
       IN  queue' = g.queue /\ regexes' = g.regexes
    /\ pc' = "while"
    /\ UNCHANGED <<regex, word, states, state, ret, matchVars, builderVars, out>>

\* One iteration of the while loop.
WhileStep ==
    /\ pc = "while"
    /\ queue # <<>>
    /\ Len(states) < MaxStates
    /\ LET b == WhileBody(queue, regexes, iter, symbols)
       IN  /\ queue' = b.queue
           /\ regexes' = b.regexes
           /\ states' = Append(states, b.state)
    /\ UNCHANGED <<regex, word, pc, symbols, iter, state, ret, matchVars, builderVars, out>>

\* The queue is empty: to_automaton returns the automaton.
WhileExit ==
    /\ pc = "while"
    /\ queue = <<>>
    /\ pc' = "automaton"
    /\ UNCHANGED <<regex, word, symbols, iter, regexes, queue, states, state, ret,
                   matchVars, builderVars, out>>

\* to_matcher / into_matcher
ToMatcher ==
    /\ pc = "automaton"
    /\ pc' = "matcher"
    /\ state' = 0
    /\ word' = <<>>
    /\ UNCHANGED <<regex, symbols, iter, regexes, queue, states, ret,
                   matchVars, builderVars, out>>

\* Matcher::next
MatcherNext(symbol) ==
    /\ pc \in {"matcher", "next", "next_iter"}
    /\ Len(word) < MaxWord
    /\ state' = next(states, state, symbol)
    /\ ret' = is_accepting(states, state')
    /\ word' = Append(word, symbol)
    /\ pc' = "next"
    /\ UNCHANGED <<regex, symbols, iter, regexes, queue, states,
                   matchVars, builderVars, out>>

\* Matcher::next_iter
MatcherNextIter(w) ==
    /\ pc \in {"matcher", "next", "next_iter"}
    /\ Len(word) + Len(w) <= MaxWord
    /\ state' = RunFrom(states, state, w, 1)
    /\ ret' = is_accepting(states, state')
    /\ word' = word \o w
    /\ pc' = "next_iter"
    /\ UNCHANGED <<regex, symbols, iter, regexes, queue, states,
                   matchVars, builderVars, out>>

Next ==
    \/ ToAutomaton
    \/ WhileStep
    \/ WhileExit
    \/ ToMatcher
    \/ \E symbol \in WordSymbols : MatcherNext(symbol)
    \/ \E w \in Words(MaxWord) : MatcherNextIter(w)

Spec == Init /\ [][Next]_vars

\* to_automaton is one sequential call: once entered, it runs its loop until
\* the loop condition fails and then returns.
SpecFair ==
    /\ Init /\ [][Next]_vars
    /\ WF_vars(ToAutomaton) /\ WF_vars(WhileStep) /\ WF_vars(WhileExit)

\* C1: next_iter on the automaton of a canonical term returns is_match of
\* the term on the word fed since the matcher was made; on the empty word
\* that is is_nullable of the term.
C1_AutomatonAgreesWithIsMatch ==
    pc = "next_iter" =>
        /\ ret = is_match("ASC", regex, word)
        /\ (word = <<>> => ret = is_nullable(regex))

C1_Witness ==
    /\ pc = "next_iter" /\ ret
    /\ Len(word) = 3 /\ Other \in {word[i] : i \in 1..3}
    /\ word[1] \in symbols
    /\ Len(states) >= 3

\* ------------------------------------------- canonicalizing builder client
\* A client holds three terms and replaces one of them by an atom or by the
\* result of a builder operation on it (r = !r, r = r | s, ...).
Reg(k) == IF k = 1 THEN ra ELSE IF k = 2 THEN rb ELSE rc

Store(k, v) ==
    /\ ra' = IF k = 1 THEN v ELSE ra
    /\ rb' = IF k = 2 THEN v ELSE rb
    /\ rc' = IF k = 3 THEN v ELSE rc
    /\ TermSize(ra') + TermSize(rb') + TermSize(rc') <= MaxNodes
    /\ UNCHANGED <<regex, word, matchVars, autoVars, out>>

InitBuilder ==
    /\ ra \in Atoms /\ rb \in Atoms /\ rc \in Atoms
    /\ regex = EmptySet /\ word = <<>>
    /\ MatchIdle /\ AutoIdle /\ DisplayIdle

BuildAtom(k, a) == Store(k, a)
BuildClosure(k) == Store(k, asc_closure(Reg(k)))
BuildComplement(k) == Store(k, asc_complement(Reg(k)))
BuildConcat(k, j) == Store(k, asc_concat(Reg(k), Reg(j)))
BuildOr(k, j) == Store(k, asc_or(Reg(k), Reg(j)))
BuildAnd(k, j) == Store(k, asc_and(Reg(k), Reg(j)))

NextBuilder ==
    \/ \E k \in 1..3, a \in Atoms : BuildAtom(k, a)
    \/ \E k \in 1..3 : BuildClosure(k)
    \/ \E k \in 1..3 : BuildComplement(k)
    \/ \E k, j \in 1..3 : BuildConcat(k, j)
    \/ \E k, j \in 1..3 : BuildOr(k, j)
    \/ \E k, j \in 1..3 : BuildAnd(k, j)

SpecBuilder == InitBuilder /\ [][NextBuilder]_vars

Held == {ra, rb, rc}
Top == Complement(EmptySet)

RECURSIVE Subterms(_)
Subterms(r) ==
    {r} \cup (IF IsBinary(r) THEN Subterms(r[2]) \cup Subterms(r[3])
              ELSE IF IsUnary(r) THEN Subterms(r[2])
              ELSE {})

\* The operands of a chain of variant k, left to right, however it nests.
RECURSIVE Operands(_, _)
Operands(k, r) ==
    IF Kind(r) = k THEN Operands(k, r[2]) \o Operands(k, r[3]) ELSE <<r>>

\* C4: or and and are associative and commutative up to structural equality.
C4_OrAndAssociativeCommutative ==
    /\ asc_or(ra, asc_or(rb, rc)) = asc_or(asc_or(ra, rb), rc)
    /\ asc_or(ra, rb) = asc_or(rb, ra)
    /\ asc_and(ra, asc_and(rb, rc)) = asc_and(asc_and(ra, rb), rc)
    /\ asc_and(ra, rb) = asc_and(rb, ra)

C4_Witness ==
    /\ Kind(ra) = "Or" /\ Kind(rb) = "Symbol" /\ Kind(rc) = "Closure"
    /\ cmp(rb, ra[3]) < 0
    /\ Len(Operands("Or", asc_or(ra, asc_or(rb, rc)))) = 4
    /\ Len(Operands("And", asc_and(asc_and(ra, rb), rc))) = 3

\* C5: or and and are idempotent, also on chains, and no Or or And chain
\* of a held term has two equal operands.
NoEqualOperands(k, r) ==
    LET ops == Operands(k, r)
    IN  Cardinality({ops[i] : i \in 1..Len(ops)}) = Len(ops)

C5_OrAndIdempotent ==
    \A r \in Held :
        /\ asc_or(r, r) = r
        /\ asc_and(r, r) = r
        /\ \A t \in Subterms(r) :
            /\ Kind(t) = "Or" => NoEqualOperands("Or", t)
            /\ Kind(t) = "And" => NoEqualOperands("And", t)

C5_Witness ==
    /\ Kind(ra) = "Or" /\ Kind(ra[2]) = "Or"
    /\ rc \in {ra[3], ra[2][2], ra[2][3]}
    /\ asc_or(ra, rc) = ra
    /\ asc_or(ra, ra) = ra

\* C6: the complement of the empty set is the identity of and and absorbs
\* or; the empty set absorbs and and is the identity of or; in both orders.
C6_TopAndBottom ==
    \A r \in Held :
        /\ asc_and(r, Top) = r /\ asc_and(Top, r) = r
        /\ asc_or(r, Top) = Top /\ asc_or(Top, r) = Top
        /\ asc_and(r, EmptySet) = EmptySet /\ asc_and(EmptySet, r) = EmptySet
        /\ asc_or(r, EmptySet) = r /\ asc_or(EmptySet, r) = r

C6_Witness ==
    /\ ra = Top /\ rb = EmptySet
    /\ Kind(rc) = "And" /\ TermSize(rc) = 4
    /\ asc_and(rc, ra) = rc /\ asc_or(rb, rc) = rc

\* C7: complement is an involution on held terms, and no held term has a
\* Complement node directly under a Complement node.
C7_ComplementInvolution ==
    \A r \in Held :
        /\ asc_complement(asc_complement(r)) = r
        /\ \A t \in Subterms(r) :
            Kind(t) = "Complement" => Kind(t[2]) # "Complement"

C7_Witness ==
    /\ Kind(ra) = "Complement" /\ Kind(ra[2]) = "Closure"
    /\ rb = ra[2]
    /\ asc_complement(ra) = rb /\ asc_complement(rb) = ra

\* C8: closure is idempotent, and the closures of the empty set and of the
\* empty string are the empty string.
C8_ClosureIdempotent ==
    /\ \A r \in Held :
        /\ asc_closure(asc_closure(r)) = asc_closure(r)
        /\ \A t \in Subterms(r) :
            Kind(t) = "Closure" => t[2] \notin {EmptySet, EmptyString}
    /\ asc_closure(EmptySet) = EmptyString
    /\ asc_closure(EmptyString) = EmptyString

C8_Witness ==
    /\ Kind(ra) = "Closure" /\ Kind(ra[2]) = "Complement"
    /\ rb = ra[2]
    /\ rc = EmptyString
    /\ asc_closure(rb) = ra /\ asc_closure(ra) = ra

\* C9: concat is associative, keeps the operands of the left term followed
\* by those of the right term, returns the other operand next to the empty
\* string and the empty set next to the empty set.
C9_ConcatAssociativeOrdered ==
    /\ asc_concat(ra, asc_concat(rb, rc)) = asc_concat(asc_concat(ra, rb), rc)
    /\ ({ra, rb} \cap {EmptySet, EmptyString} = {} =>
            Operands("Concat", asc_concat(ra, rb))
                = Operands("Concat", ra) \o Operands("Concat", rb))
    /\ \A r \in Held :
        /\ asc_concat(EmptySet, r) = EmptySet /\ asc_concat(r, EmptySet) = EmptySet
        /\ asc_concat(EmptyString, r) = r /\ asc_concat(r, EmptyString) = r

C9_Witness ==
    /\ Kind(ra) = "Concat" /\ Kind(rb) = "Concat"
    /\ ra[3] = rb[2] /\ ra[2] = rb[3] /\ ra # rb
    /\ Len(Operands("Concat", asc_concat(ra, asc_concat(rb, rc)))) = 5

\* C10 as stated: the left child of a Concat, Or or And node of a held term
\* is never a node of the same variant.
C10_LeftChildNeverSameVariant ==
    \A r \in Held : \A t \in Subterms(r) :
        IsBinary(t) => Kind(t[2]) # Kind(t)

\* C10 amended: chains are refolded to the left; the right child of a
\* Concat, Or or And node of a held term is never a node of the same
\* variant.
C10_RightChildNeverSameVariant ==
    \A r \in Held : \A t \in Subterms(r) :
        IsBinary(t) => Kind(t[3]) # Kind(t)

C10_Witness ==
    /\ Kind(ra) = "Concat" /\ Kind(ra[2]) = "Concat"
    /\ Kind(ra[3]) = "Symbol"
    /\ rb = ra[2][3] /\ rc = ra[3]

\* The term order in words: the place of a variant in the ranking, and a
\* strictly-less relation that compares terms of one variant by their
\* children, left before right, and symbols by their values.
Ranking ==
    <<"EmptySet", "EmptyString", "Symbol", "Concat", "Closure", "Or", "And",
      "Complement">>

Place(r) == CHOOSE i \in 1..Len(Ranking) : Ranking[i] = Kind(r)

RECURSIVE TermLess(_, _)
TermLess(a, b) ==
    IF Kind(a) # Kind(b) THEN Place(a) < Place(b)
    ELSE IF Kind(a) = "Symbol" THEN a[2] < b[2]
    ELSE IF IsBinary(a)
        THEN TermLess(a[2], b[2]) \/ (a[2] = b[2] /\ TermLess(a[3], b[3]))
    ELSE IF IsUnary(a) THEN TermLess(a[2], b[2])
    ELSE FALSE

\* The ways to arrange the three held terms.
Arrangements ==
    {<<ra, rb, rc>>, <<ra, rc, rb>>, <<rb, ra, rc>>, <<rb, rc, ra>>,
     <<rc, ra, rb>>, <<rc, rb, ra>>}

\* The held terms can be operands of a chain of variant k that or / and
\* neither drops nor flattens.
ChainOperands(k) ==
    /\ ra # rb /\ ra # rc /\ rb # rc
    /\ \A r \in Held : r # EmptySet /\ r # Top /\ Kind(r) # k

\* C11: distinct operands combined with or (and) in any order and grouping
\* give, rebuilt through the pure builder, the left-nested chain of the
\* operands in strictly ascending term order.
C11_SortedLeftNestedChain ==
    /\ ChainOperands("Or") =>
        \E s \in Arrangements :
            /\ TermLess(s[1], s[2]) /\ TermLess(s[2], s[3])
            /\ \A q \in Arrangements :
                /\ rebuild("Pure", asc_or(asc_or(q[1], q[2]), q[3]))
                    = Or(Or(s[1], s[2]), s[3])
                /\ rebuild("Pure", asc_or(q[1], asc_or(q[2], q[3])))
                    = Or(Or(s[1], s[2]), s[3])
                /\ rebuild("Pure", asc_or(q[1], q[2]))
                    = IF TermLess(q[1], q[2]) THEN Or(q[1], q[2])
                      ELSE Or(q[2], q[1])
    /\ ChainOperands("And") =>
        \E s \in Arrangements :
            /\ TermLess(s[1], s[2]) /\ TermLess(s[2], s[3])
            /\ \A q \in Arrangements :
                /\ rebuild("Pure", asc_and(asc_and(q[1], q[2]), q[3]))
                    = And(And(s[1], s[2]), s[3])
                /\ rebuild("Pure", asc_and(q[1], asc_and(q[2], q[3])))
                    = And(And(s[1], s[2]), s[3])
                /\ rebuild("Pure", asc_and(q[1], q[2]))
                    = IF TermLess(q[1], q[2]) THEN And(q[1], q[2])
                      ELSE And(q[2], q[1])

\* 2 & !1 & 1 becomes (1 & 2) & !1.
C11_Witness ==
    /\ ra = Symbol(2) /\ rb = Complement(Symbol(1)) /\ rc = Symbol(1)
    /\ ChainOperands("And")
    /\ rebuild("Pure", asc_and(asc_and(ra, rb), rc))
        = And(And(Symbol(1), Symbol(2)), Complement(Symbol(1)))

\* The terms of a matching run and all their subterms.
MatchTerms == UNION {Subterms(t) : t \in {pure, regex, d_pure, d_canon}}

\* C12: on every term of either builder is_nullable obeys the structural
\* table, is true exactly when the empty word is in the language, and
\* nullable is EmptyString when is_nullable is true and EmptySet otherwise.
C12_NullabilityTable ==
    \A t \in MatchTerms :
        /\ Kind(t) = "EmptySet" => ~is_nullable(t)
        /\ Kind(t) = "EmptyString" => is_nullable(t)
        /\ Kind(t) = "Symbol" => ~is_nullable(t)
        /\ Kind(t) = "Concat" =>
            (is_nullable(t) <=> (is_nullable(t[2]) /\ is_nullable(t[3])))
        /\ Kind(t) = "Closure" => is_nullable(t)
        /\ Kind(t) = "Or" =>
            (is_nullable(t) <=> (is_nullable(t[2]) \/ is_nullable(t[3])))
        /\ Kind(t) = "And" =>
            (is_nullable(t) <=> (is_nullable(t[2]) /\ is_nullable(t[3])))
        /\ Kind(t) = "Complement" => (is_nullable(t) <=> ~is_nullable(t[2]))
        /\ is_nullable(t) <=> InLang(t, <<>>)
        /\ nullable(t) = (IF InLang(t, <<>>) THEN EmptyString ELSE EmptySet)

\* A derivative that is a non-nullable concatenation under a complement,
\* next to a nullable closure of a non-nullable term.
C12_Witness ==
    /\ word # <<>>
    /\ \E t \in MatchTerms :
        /\ Kind(t) = "Complement" /\ Kind(t[2]) = "Concat"
        /\ is_nullable(t) /\ nullable(t[2]) = EmptySet
    /\ \E t \in MatchTerms :
        /\ Kind(t) = "Closure" /\ ~is_nullable(t[2]) /\ nullable(t) = EmptyString

\* C13: a term built through the canonicalizing builder is its own rebuild
\* and clone under that builder, and read as a pure term it is its own
\* rebuild and clone under the pure builder.
C13_RebuildIsIdentity ==
    \A r \in Held :
        /\ rebuild("ASC", r) = r /\ clone("ASC", r) = r
        /\ rebuild("Pure", r) = r /\ clone("Pure", r) = r

\* A held chain of three concatenated symbols.
C13_Witness ==
    /\ Kind(ra) = "Concat" /\ Kind(ra[2]) = "Concat"
    /\ Kind(ra[3]) = "Symbol"
    /\ clone("ASC", ra) = ra

\* The index in the automaton sts of the state that holds the regex r.
StateOf(sts, r) == CHOOSE j \in 0..(Len(sts) - 1) : sts[j + 1].regex = r

\* The automata a and b are the same up to the renumbering that sends a
\* state of a to the state of b with the same regex: the renumbering is a
\* bijection that fixes state 0 and preserves the accepting flag, the
\* per-symbol transitions and the default transition.
SameUpToRenumbering(a, b) ==
    /\ Len(a) = Len(b)
    /\ \A i \in 1..Len(a) : \E j \in 1..Len(b) : b[j].regex = a[i].regex
    /\ \A i, j \in 1..Len(a) : a[i].regex = a[j].regex => i = j
    /\ \A i, j \in 1..Len(b) : b[i].regex = b[j].regex => i = j
    /\ StateOf(b, a[1].regex) = 0
    /\ \A i \in 1..Len(a) :
        LET t == b[StateOf(b, a[i].regex) + 1]
        IN  /\ t.accepting = a[i].accepting
            /\ DOMAIN t.transitions = DOMAIN a[i].transitions
            /\ \A v \in DOMAIN a[i].transitions :
                t.transitions[v]
                    = StateOf(b, a[a[i].transitions[v] + 1].regex)
            /\ t.default_transition
                = StateOf(b, a[a[i].default_transition + 1].regex)

\* C14: the automaton built is, up to state renumbering, the automaton built
\* under every other iteration order of the symbol set.
C14_OrderOnlyRenumbers ==
    pc = "automaton" =>
        \A o \in Orders(symbols) :
            SameUpToRenumbering(states, to_automaton(regex, o))

\* Another iteration order numbers the states differently.
C14_Witness ==
    /\ pc = "automaton"
    /\ \E o \in Orders(symbols) :
        /\ to_automaton(regex, o) # states
        /\ SameUpToRenumbering(states, to_automaton(regex, o))

\* C15: every call of to_automaton on a canonical term returns: the work
\* queue becomes empty, and the loop never needs more than the states the
\* model lets it push.
C15_ToAutomatonTerminates ==
    /\ [](pc = "while" /\ queue # <<>> => Len(states) < MaxStates)
    /\ (pc = "to_automaton") ~> (pc = "automaton" /\ queue = <<>>)

\* The loop ended after it interned and emitted five distinct derivatives.
C15_Witness ==
    /\ pc = "automaton" /\ queue = <<>>
    /\ Len(states) = 5 /\ Cardinality(DOMAIN regexes) = 5

\* C16 as stated: the automaton of a canonical term without symbols has one
\* or two states, each with an empty transition map.
C16_OneOrTwoStates ==
    pc = "automaton" /\ symbols = {} =>
        /\ Len(states) \in {1, 2}
        /\ \A i \in 1..Len(states) : states[i].transitions = <<>>

\* C16, amended: in the automaton of a canonical term without symbols every
\* state has an empty transition map, so every symbol takes the default
\* transition, which leads to the state of the derivative by that symbol.
C16_SymbolFreeDefaultOnly ==
    pc = "automaton" /\ symbols = {} =>
        \A i \in 1..Len(states) :
            /\ states[i].transitions = <<>>
            /\ states[i].default_transition \in 0..(Len(states) - 1)
            /\ \A v \in WordSymbols :
                /\ next(states, i - 1, v) = states[i].default_transition
                /\ states[states[i].default_transition + 1].regex
                    = derive("ASC", states[i].regex, v)

\* The automaton of a term without symbols that has three states.
C16_Witness ==
    /\ pc = "automaton" /\ symbols = {}
    /\ Len(states) = 3
    /\ \A i \in 1..Len(states) : states[i].transitions = <<>>

\* C17: to_automaton never returns an automaton with more states than the
\* bound the caller configured. to_automaton takes the regex and nothing
\* else, so the automaton it returns is the same for every bound a caller may
\* have in mind.
C17_NeverMoreStatesThanBound ==
    \A bound \in 1..MaxStates :
        pc = "automaton" => Len(states) <= bound

\* C18: the regex of the matcher's state is the derivative of the term by
\* the word fed so far, the term itself before any input, and the default
\* transition of every state leads to the state of the derivative by a symbol
\* that does not occur in the term.
C18_MatcherTracksDerivative ==
    /\ pc \in {"matcher", "next", "next_iter"} =>
        /\ Matcher_regex(states, state) = derive_iter("ASC", regex, word)
        /\ word = <<>> => Matcher_regex(states, state) = regex
    /\ pc \in {"automaton", "matcher", "next", "next_iter"} =>
        \A i \in 1..Len(states) : \A v \in WordSymbols \ symbols :
            Matcher_regex(states, states[i].default_transition)
                = derive("ASC", states[i].regex, v)

\* After a word with a symbol of the term and a symbol outside it the matcher
\* is in a state other than the first whose regex is not the empty set.
C18_Witness ==
    /\ pc \in {"next", "next_iter"}
    /\ \E i, j \in 1..Len(word) : word[i] = Other /\ word[j] \in symbols
    /\ state # 0
    /\ Matcher_regex(states, state) # EmptySet
    /\ Matcher_regex(states, state) = derive_iter("ASC", regex, word)

\* The indices of the states of the automaton.
StateIndices == 0..(Len(states) - 1)

\* C19: the k-th state holds the regex interned with index k, state 0 holds
\* the term, no two states hold the same regex, during the loop the emitted
\* and the queued regexes are the interned ones, and once the automaton is
\* returned every transition target and the matcher's state is the index of
\* a state.
C19_IndexConsistent ==
    /\ \A k \in 1..Len(states) :
        /\ states[k].regex \in DOMAIN regexes
        /\ regexes[states[k].regex] = k - 1
    /\ Len(states) > 0 => states[1].regex = regex
    /\ \A j, k \in 1..Len(states) :
        states[j].regex = states[k].regex => j = k
    /\ pc = "while" =>
        /\ {states[k].regex : k \in 1..Len(states)}
            \cup {queue[i] : i \in 1..Len(queue)} = DOMAIN regexes
        /\ \A i \in 1..Len(queue) : regexes[queue[i]] = Len(states) + i - 1
    /\ pc \in {"automaton", "matcher", "next", "next_iter"} =>
        /\ Len(states) = Cardinality(DOMAIN regexes)
        /\ state \in StateIndices
        /\ \A k \in 1..Len(states) :
            /\ states[k].default_transition \in StateIndices
            /\ \A v \in DOMAIN states[k].transitions :
                states[k].transitions[v] \in StateIndices
        /\ \A v \in WordSymbols : next(states, state, v) \in StateIndices

\* The matcher has walked to the last of five states.
C19_Witness ==
    /\ pc = "next"
    /\ Len(states) = 5 /\ state = 4
    /\ regexes[states[5].regex] = 4

\* ---------------------------------------------------------------- display
\* enum Level, in the order its derived Ord gives.
LevelOrd(l) ==
    CASE l = "None" -> 0
      [] l = "Binary" -> 1
      [] l = "Unary" -> 2
      [] l = "Atom" -> 3

level(r) ==
    CASE Kind(r) \in {"EmptySet", "EmptyString", "Symbol"} -> "Atom"
      [] Kind(r) \in {"Concat", "Or", "And"} -> "Binary"
      [] Kind(r) \in {"Closure", "Complement"} -> "Unary"

\* Regex::fmt, fmt_left and fmt_right_or_inner: the sequence of the pieces
\* they write, one piece for each write!. "{empty set}", "{epsilon}" and
\* "{not}" stand for the one-character strings U+2205, U+03B5 and U+00AC.
RECURSIVE fmt(_, _, _)
RECURSIVE fmt_left(_, _, _)
RECURSIVE fmt_right_or_inner(_, _)
fmt(r, ctx, lvl) ==
    LET open ==
            IF (ctx = "Inner" \/ ctx = "Left") /\ LevelOrd(level(r)) <= LevelOrd(lvl)
                THEN <<"(">> ELSE <<>>
        body ==
            CASE Kind(r) = "EmptySet" -> <<"{empty set}">>
              [] Kind(r) = "EmptyString" -> <<"{epsilon}">>
              [] Kind(r) = "Symbol" -> <<ToString(r[2])>>
              [] Kind(r) = "Concat" ->
                    fmt_left(r, r[2], lvl) \o <<" ">>
                        \o fmt_right_or_inner(r, r[3])
              [] Kind(r) = "Closure" -> fmt_right_or_inner(r, r[2]) \o <<"*">>
              [] Kind(r) = "Or" ->
                    fmt_left(r, r[2], lvl) \o <<" | ">>
                        \o fmt_right_or_inner(r, r[3])
              [] Kind(r) = "And" ->
                    fmt_left(r, r[2], lvl) \o <<" & ">>
                        \o fmt_right_or_inner(r, r[3])
              [] Kind(r) = "Complement" ->
                    <<"{not}">> \o fmt_right_or_inner(r, r[2])
        close ==
            IF ctx = "Inner" /\ LevelOrd(level(r)) <= LevelOrd(lvl)
                THEN <<")">> ELSE <<>>
    IN  open \o body \o close

fmt_left(self, left, outer_level) ==
    IF Kind(self) = Kind(left) /\ Kind(self) \in {"Concat", "Or", "And"}
        THEN fmt(left, "Left", outer_level)
        ELSE fmt(left, "Inner", level(self))

fmt_right_or_inner(self, right_or_inner) ==
    fmt(right_or_inner, "Inner", level(self))

\* impl Display for Regex
Display_fmt(r) == fmt(r, "Inner", "None")

InitDisplay ==
    /\ pure \in PureTerms(MaxDisplay)
    /\ regex = EmptySet /\ word = <<>>
    /\ d_pure = EmptySet /\ d_canon = EmptySet
    /\ out = <<>>
    /\ AutoIdle /\ BuilderIdle

\* to_string() of the term.
to_string ==
    /\ out = <<>>
    /\ out' = Display_fmt(pure)
    /\ UNCHANGED <<regex, word, matchVars, autoVars, builderVars>>

NextDisplay == to_string

SpecDisplay == InitDisplay /\ [][NextDisplay]_vars

\* The number of pieces p among the first n pieces of s.
RECURSIVE Count(_, _, _)
Count(s, p, n) ==
    IF n = 0 THEN 0 ELSE Count(s, p, n - 1) + (IF s[n] = p THEN 1 ELSE 0)

\* Every ")" closes an earlier "(" and no "(" is left open.
Balanced(s) ==
    /\ \A n \in 1..Len(s) : Count(s, ")", n) <= Count(s, "(", n)
    /\ Count(s, ")", Len(s)) = Count(s, "(", Len(s))

\* The number of operands in r whose level is not higher than the level of
\* the node they are an operand of.
RECURSIVE LowOperands(_)
LowOperands(r) ==
    IF IsBinary(r)
        THEN LowOperands(r[2]) + LowOperands(r[3])
             + (IF LevelOrd(level(r[2])) <= LevelOrd(level(r)) THEN 1 ELSE 0)
             + (IF LevelOrd(level(r[3])) <= LevelOrd(level(r)) THEN 1 ELSE 0)
    ELSE IF IsUnary(r)
        THEN LowOperands(r[2])
             + (IF LevelOrd(level(r[2])) <= LevelOrd(level(r)) THEN 1 ELSE 0)
    ELSE 0

\* C20: what Display writes has balanced parentheses, and no more pairs
\* than there are operands whose level is not higher than their parent's.
C20_DisplayBalanced ==
    out # <<>> =>
        /\ Balanced(out)
        /\ Count(out, "(", Len(out)) <= LowOperands(pure)

====
